---------------------------- MODULE Spec2Model ----------------------------
(***************************************************************************)
(* A model of doppelganger/accuracy.py: the Accuracy object (five tables), *)
(* its comparison-table builder, the three error statistics, the csv       *)
(* loader and the batch runner run_pumas.                                  *)
(*                                                                         *)
(* Python semantics assumed: dict.keys() returns a fresh list (the module  *)
(* calls .remove on it, line 99), pandas pads short rows of a list-of-lists*)
(* frame with NaN on the right, Series.sum/mean skip NaN, DataFrame.count  *)
(* counts the non-missing cells of each column.                            *)
(***************************************************************************)
EXTENDS Integers, Sequences, FiniteSets, TLC

VARIABLES
    CONTROLS,               \* marginals.CONTROLS: variable -> list of bin labels
    person_pums,            \* Accuracy.person_pums
    household_pums,         \* Accuracy.household_pums
    marginals,              \* Accuracy.marginals: column -> total (one row)
    generated_persons,      \* Accuracy.generated_persons
    generated_households,   \* Accuracy.generated_households
    ret,                    \* outcome of the last direct call on the object
    state_puma,             \* run_pumas argument: list of (state, pumas)
    statistic,              \* run_pumas argument
    unreadable,             \* files of data_dir that cannot be read
    pc,                     \* "object" | "loop" | "returned" | "raised"
    summary,                \* the frame run_pumas returns
    pos,                    \* run_pumas: number of (state, puma) pairs consumed
    d_result,               \* run_pumas: the OrderedDict, keys and values
    exc,                    \* exception leaving run_pumas, "" when none
    loads,                  \* pairs handed to from_data_dir, in order
    scored                  \* pairs whose statistic was computed, in order

vars == <<CONTROLS, person_pums, household_pums, marginals, generated_persons,
          generated_households, ret, state_puma, statistic, unreadable, pc,
          summary, pos, d_result, exc, loads, scored>>

tables == <<person_pums, household_pums, marginals, generated_persons,
            generated_households>>

batch == <<state_puma, statistic, unreadable, summary, pos, d_result, exc,
           loads, scored>>

-----------------------------------------------------------------------------
(* Bounds of the model *)

MaxPersons == 2                 \* rows of person_pums
MaxHouseholds == 1              \* rows of household_pums
MaxGeneratedPersons == 2        \* rows of generated_persons
MaxGeneratedHouseholds == 1     \* rows of generated_households
MaxWeight == 2                  \* the person_weight, household_weight above 1
MaxMarginal == 1                \* largest total in a marginals column
MaxPumas == 2                   \* sub-areas listed under one state

Weights == {1, MaxWeight}

-----------------------------------------------------------------------------
(* Numbers.  A table cell or a statistic is NaN, +inf, a rational n/d in   *)
(* lowest terms, or the square root of a rational that has no rational     *)
(* root.  Counts and weights are non-negative, so -inf never arises.       *)

NaN == [kind |-> "nan", n |-> 0, d |-> 1]

Inf == [kind |-> "inf", n |-> 1, d |-> 0]

Abs(x) == IF x < 0 THEN -x ELSE x

RECURSIVE Gcd(_, _)
Gcd(a, b) == IF b = 0 THEN a ELSE Gcd(b, a % b)

\* n/d in lowest terms, d > 0
Q(n, d) ==
    LET g == Gcd(Abs(n), Abs(d))
        s == IF d < 0 THEN -1 ELSE 1
    IN [kind |-> "num", n |-> (s * n) \div g, d |-> (s * d) \div g]

Val(n) == Q(n, 1)

IsNaN(a) == a.kind = "nan"

QAdd(a, b) ==
    IF IsNaN(a) \/ IsNaN(b) THEN NaN
    ELSE IF a.kind = "inf" \/ b.kind = "inf" THEN Inf
    ELSE Q(a.n * b.d + b.n * a.d, a.d * b.d)

QSub(a, b) ==
    IF IsNaN(a) \/ IsNaN(b) THEN NaN
    ELSE IF a.kind = "inf" /\ b.kind = "inf" THEN NaN
    ELSE IF a.kind = "inf" \/ b.kind = "inf" THEN Inf
    ELSE Q(a.n * b.d - b.n * a.d, a.d * b.d)

\* a / b as numpy divides: 0/0 is nan, x/0 is inf
QDiv(a, b) ==
    IF IsNaN(a) \/ IsNaN(b) THEN NaN
    ELSE IF a.kind = "inf" THEN (IF b.kind = "inf" THEN NaN ELSE Inf)
    ELSE IF b.kind = "inf" THEN Val(0)
    ELSE IF b.n = 0 THEN (IF a.n = 0 THEN NaN ELSE Inf)
    ELSE Q(a.n * b.d, a.d * b.n)

\* np.square
Square(a) == IF a.kind = "num" THEN Q(a.n * a.n, a.d * a.d) ELSE a

\* np.abs
QAbs(a) == IF a.kind = "num" THEN Q(Abs(a.n), a.d) ELSE a

ISqrt(n) == CHOOSE r \in 0..n : r * r <= n /\ (r + 1) * (r + 1) > n

\* np.sqrt: nan for nan and for a negative argument
Sqrt(a) ==
    IF IsNaN(a) THEN NaN
    ELSE IF a.kind = "inf" THEN Inf
    ELSE IF a.kind = "sqrt" \/ a.n < 0 THEN NaN
    ELSE IF ISqrt(a.n) * ISqrt(a.n) = a.n /\ ISqrt(a.d) * ISqrt(a.d) = a.d
         THEN Q(ISqrt(a.n), ISqrt(a.d))
         ELSE [kind |-> "sqrt", n |-> a.n, d |-> a.d]

Range(s) == {s[i] : i \in DOMAIN s}

RECURSIVE SumOver(_, _)
SumOver(series, keys) ==
    IF keys = {} THEN Val(0)
    ELSE LET k == CHOOSE x \in keys : TRUE
         IN QAdd(series[k], SumOver(series, keys \ {k}))

\* np.mean of a pandas Series: Series.mean, which skips NaN and is nan when
\* nothing is left
Mean(series) ==
    LET valid == {k \in DOMAIN series : ~IsNaN(series[k])}
    IN IF valid = {} THEN NaN
       ELSE QDiv(SumOver(series, valid), Val(Cardinality(valid)))

-----------------------------------------------------------------------------
(* The comparison table *)

\* a cell that read_csv found empty
NA == "NA"

\* the marginals column named variable + '_' + bin
Column(variable, bin) == <<variable, bin>>

\* a builder that counts the survey records instead of adding their weights
RECURSIVE WeightCount(_, _, _, _)
WeightCount(table, variable, bin, weight) ==
    IF table = <<>> THEN 0
    ELSE (IF Head(table)[variable] = bin THEN 1 ELSE 0)
         + WeightCount(Tail(table), variable, bin, weight)

\* table[table[variable] == bin][weight].sum()
RECURSIVE WeightSum(_, _, _, _)
WeightSum(table, variable, bin, weight) ==
    IF table = <<>> THEN 0
    ELSE (IF Head(table)[variable] = bin THEN Head(table)[weight] ELSE 0)
         + WeightSum(Tail(table), variable, bin, weight)

\* table[table[variable] == bin].count()[0]: the non-missing cells of the
\* first column among the matching rows
RECURSIVE CountFirst(_, _, _)
CountFirst(table, variable, bin) ==
    IF table = <<>> THEN 0
    ELSE (IF Head(table)[variable] = bin /\ Head(table).col0 # NA THEN 1 ELSE 0)
         + CountFirst(Tail(table), variable, bin)

\* a builder that leaves the pseudo-bin in
RemoveNothing(list, x) == list

\* list.remove(x): drops the first occurrence
RECURSIVE Remove(_, _)
Remove(list, x) ==
    IF list = <<>> THEN <<>>
    ELSE IF Head(list) = x THEN Tail(list)
    ELSE <<Head(list)>> \o Remove(Tail(list), x)

Raise(e) == [status |-> e, df |-> <<>>]

\* the list d[(variable, bin)] after the loop body
Cells(self, variable, bin) ==
    (IF variable = "age" THEN
        <<Val(WeightSum(self.person_pums, variable, bin, "person_weight")),
          Val(CountFirst(self.generated_persons, variable, bin))>>
     ELSE IF variable = "num_people" THEN
        <<Val(WeightSum(self.household_pums, variable, bin, "household_weight")),
          Val(CountFirst(self.generated_households, variable, bin))>>
     ELSE IF variable = "num_vehicles" THEN
        <<Val(WeightSum(self.household_pums, variable, bin, "household_weight")),
          Val(CountFirst(self.generated_households, variable, bin))>>
     ELSE <<>>)
    \o <<Val(self.marginals[Column(variable, bin)])>>

Cell(list, i) == IF i <= Len(list) THEN list[i] ELSE NaN

\* pd.DataFrame(d.values(), index=d.keys(), columns=['pums', 'gen', 'marginal'])
\* the lists are rows; a short row is padded with NaN on the right, and the
\* widest row must have as many cells as there are column names (pandas
\* raises AssertionError otherwise)
DataFrame(d) ==
    IF DOMAIN d = {} THEN [status |-> "ok", df |-> <<>>]
    ELSE IF \E k \in DOMAIN d : Len(d[k]) = 3 THEN
        [status |-> "ok",
         df |-> [k \in DOMAIN d |->
                    [pums |-> Cell(d[k], 1), gen |-> Cell(d[k], 2),
                     marginal |-> Cell(d[k], 3)]]]
    ELSE Raise("AssertionError")

\* the dict `variables`
Variables(controls, marginal_variables) ==
    LET names == IF marginal_variables = <<"all">> THEN DOMAIN controls
                 ELSE Range(marginal_variables)
    IN [v \in names |->
          IF v = "num_people" THEN Remove(controls[v], "count") ELSE controls[v]]

\* a builder that passes over the bins marginals has no column for
comparison_dataframe_skipping(self, controls, marginal_variables) ==
    IF marginal_variables # <<"all">>
       /\ \E v \in Range(marginal_variables) : v \notin DOMAIN controls
    THEN Raise("KeyError")
    ELSE LET variables == Variables(controls, marginal_variables)
             keys == UNION {{<<v, variables[v][i]>> : i \in DOMAIN variables[v]}
                            : v \in DOMAIN variables}
             found == {k \in keys : Column(k[1], k[2]) \in DOMAIN self.marginals}
         IN DataFrame([k \in found |-> Cells(self, k[1], k[2])])

comparison_dataframe(self, controls, marginal_variables) ==
    IF marginal_variables # <<"all">>
       /\ \E v \in Range(marginal_variables) : v \notin DOMAIN controls
    THEN Raise("KeyError")
    ELSE IF "num_people" \in DOMAIN Variables(controls, marginal_variables)
            /\ "count" \notin Range(controls["num_people"])
    THEN Raise("ValueError")
    ELSE LET variables == Variables(controls, marginal_variables)
             keys == UNION {{<<v, variables[v][i]>> : i \in DOMAIN variables[v]}
                            : v \in DOMAIN variables}
         IN IF \E k \in keys : Column(k[1], k[2]) \notin DOMAIN self.marginals
            THEN Raise("KeyError")
            ELSE DataFrame([k \in keys |-> Cells(self, k[1], k[2])])

\* a builder whose remove('count') reaches the list CONTROLS holds
controls_aliased(controls, marginal_variables) ==
    IF "num_people" \in DOMAIN Variables(controls, marginal_variables)
    THEN [controls EXCEPT !["num_people"] = Remove(@, "count")]
    ELSE controls

\* what a call of the builder leaves in marginals.CONTROLS: keys() hands out
\* a new list, so the remove('count') of line 99 edits the copy
controls_after(controls, marginal_variables) == controls

-----------------------------------------------------------------------------
(* The three statistics; each returns (baseline, synthetic) or lets the    *)
(* builder's exception through.  verbose only prints and logs.             *)

Failed(t) == [status |-> t.status, df |-> <<>>, value |-> <<>>]

Returned(t, baseline, doppel) ==
    [status |-> "ok", df |-> t.df, value |-> <<baseline, doppel>>]

\* a statistic that takes the mean of the differences, not of their squares
root_mean_error(self, controls, variables) ==
    LET t == comparison_dataframe(self, controls, variables)
        df == t.df
    IN IF t.status # "ok" THEN Failed(t)
       ELSE Returned(t,
              Sqrt(Mean([k \in DOMAIN df |-> QSub(df[k].pums, df[k].marginal)])),
              Sqrt(Mean([k \in DOMAIN df |-> QSub(df[k].gen, df[k].marginal)])))

root_mean_squared_error(self, controls, variables) ==
    LET t == comparison_dataframe(self, controls, variables)
        df == t.df
    IN IF t.status # "ok" THEN Failed(t)
       ELSE Returned(t,
              Sqrt(Mean([k \in DOMAIN df |-> Square(QSub(df[k].pums, df[k].marginal))])),
              Sqrt(Mean([k \in DOMAIN df |-> Square(QSub(df[k].gen, df[k].marginal))])))

mean_root_squared_error(self, controls, variables) ==
    LET t == comparison_dataframe(self, controls, variables)
        df == t.df
        baseline == [k \in DOMAIN df |-> Sqrt(Square(QSub(df[k].pums, df[k].marginal)))]
        doppel == [k \in DOMAIN df |-> Sqrt(Square(QSub(df[k].gen, df[k].marginal)))]
    IN IF t.status # "ok" THEN Failed(t)
       ELSE Returned(t, Mean(baseline), Mean(doppel))

mean_absolute_pct_error(self, controls, variables) ==
    LET t == comparison_dataframe(self, controls, variables)
        df == t.df
        baseline == [k \in DOMAIN df |->
                        QDiv(QAbs(QSub(df[k].pums, df[k].marginal)),
                             QDiv(QAdd(df[k].pums, df[k].marginal), Val(2)))]
        doppel == [k \in DOMAIN df |->
                      QDiv(QAbs(QSub(df[k].gen, df[k].marginal)),
                           QDiv(QAdd(df[k].gen, df[k].marginal), Val(2)))]
    IN IF t.status # "ok" THEN Failed(t)
       ELSE Returned(t, Mean(baseline), Mean(doppel))

-----------------------------------------------------------------------------
(* Inputs *)

\* marginals.CONTROLS: the three variables accuracy.py has a branch for, two
\* bins each and the pseudo-bin count under num_people; and the same with one
\* more variable, which accuracy.py has no branch for
BaseControls ==
    [v \in {"age", "num_people", "num_vehicles"} |->
        IF v = "age" THEN <<"0-17", "18+">>
        ELSE IF v = "num_people" THEN <<"count", "1", "2+">>
        ELSE <<"0", "1+">>]

ExtendedControls == ("income" :> <<"low">>) @@ BaseControls

ControlSpecs == {BaseControls, ExtendedControls}

Columns ==
    UNION {{Column(v, ExtendedControls[v][i]) : i \in DOMAIN ExtendedControls[v]}
           : v \in DOMAIN ExtendedControls}

SeqsUpTo(S, n) == UNION {[1..k -> S] : k \in 0..n}

PersonRecords == [age : {"0-17", "18+"}, person_weight : Weights]

HouseholdRecords ==
    [num_people : {"1", "2+"}, num_vehicles : {"0", "1+"}, household_weight : Weights]

GeneratedPersonRecords == [col0 : {NA, "p"}, age : {"0-17", "18+"}]

GeneratedHouseholdRecords ==
    [col0 : {NA, "h"}, num_people : {"1", "2+"}, num_vehicles : {"0", "1+"}]

\* every column at one total, then one column moved or dropped
MarginalTables ==
    {[c \in Columns |-> IF c = col THEN v ELSE m] :
        m \in 0..MaxMarginal, v \in 0..MaxMarginal, col \in Columns}
    \cup {[c \in Columns \ {col} |-> m] : m \in 0..MaxMarginal, col \in Columns}

DefaultPersons ==
    <<[age |-> "0-17", person_weight |-> 1], [age |-> "18+", person_weight |-> 1]>>

DefaultHouseholds ==
    <<[num_people |-> "1", num_vehicles |-> "0", household_weight |-> 1],
      [num_people |-> "2+", num_vehicles |-> "1+", household_weight |-> 1]>>

DefaultGeneratedPersons ==
    <<[col0 |-> "p", age |-> "0-17"], [col0 |-> "p", age |-> "18+"]>>

DefaultGeneratedHouseholds ==
    <<[col0 |-> "h", num_people |-> "1", num_vehicles |-> "0"],
      [col0 |-> "h", num_people |-> "2+", num_vehicles |-> "1+"]>>

DefaultMarginals == [c \in Columns |-> 1]

Default ==
    [person_pums |-> DefaultPersons, household_pums |-> DefaultHouseholds,
     marginals |-> DefaultMarginals, generated_persons |-> DefaultGeneratedPersons,
     generated_households |-> DefaultGeneratedHouseholds]

\* the data sets an Accuracy object is built on: one table ranges over all
\* its values while the other four are the default ones
MarginalDatasets == {[Default EXCEPT !.marginals = t] : t \in MarginalTables}

Datasets ==
    {[Default EXCEPT !.person_pums = t] : t \in SeqsUpTo(PersonRecords, MaxPersons)}
    \cup {[Default EXCEPT !.household_pums = t] : t \in SeqsUpTo(HouseholdRecords, MaxHouseholds)}
    \cup {[Default EXCEPT !.generated_persons = t] :
             t \in SeqsUpTo(GeneratedPersonRecords, MaxGeneratedPersons)}
    \cup {[Default EXCEPT !.generated_households = t] :
             t \in SeqsUpTo(GeneratedHouseholdRecords, MaxGeneratedHouseholds)}
    \cup MarginalDatasets

\* the variable lists the metrics are called with
Requests ==
    {<<"all">>, <<>>, <<"age">>, <<"num_vehicles", "num_people">>, <<"income">>,
     <<"age", "income">>}

self ==
    [person_pums |-> person_pums, household_pums |-> household_pums,
     marginals |-> marginals, generated_persons |-> generated_persons,
     generated_households |-> generated_households]

NoCall == [op |-> "", variables |-> <<>>, status |-> "ok", df |-> <<>>, value |-> <<>>]

EmptyDict == [keys |-> <<>>, vals |-> <<>>]

\* run_pumas has returned no frame
NoSummary == [returned |-> FALSE, index |-> <<>>, rows |-> <<>>]

\* an Accuracy object, constructed (lines 24-30), with nothing called yet;
\* the extended CONTROLS is tried on the data sets that vary marginals
InitObject ==
    /\ CONTROLS \in ControlSpecs
    /\ \E a \in Datasets :
         /\ CONTROLS = ExtendedControls => a \in MarginalDatasets
         /\ person_pums = a.person_pums
         /\ household_pums = a.household_pums
         /\ marginals = a.marginals
         /\ generated_persons = a.generated_persons
         /\ generated_households = a.generated_households
    /\ ret = NoCall
    /\ pc = "object"
    /\ state_puma = <<>>
    /\ statistic = "mean_absolute_pct_error"
    /\ unreadable = {}
    /\ summary = NoSummary
    /\ pos = 0
    /\ d_result = EmptyDict
    /\ exc = ""
    /\ loads = <<>>
    /\ scored = <<>>

-----------------------------------------------------------------------------
(* Calls on an Accuracy object *)

Call(op, variables, result) ==
    /\ pc = "object"
    /\ LET r == result
       IN ret' = [op |-> op, variables |-> variables, status |-> r.status,
                  df |-> r.df, value |-> r.value]
    /\ CONTROLS' = controls_after(CONTROLS, variables)
    /\ UNCHANGED <<tables, pc, batch>>

ComparisonDataframe ==
    \E variables \in Requests :
        LET t == comparison_dataframe(self, CONTROLS, variables)
        IN Call("_comparison_dataframe", variables,
                [status |-> t.status, df |-> t.df, value |-> <<>>])

RootMeanSquaredError ==
    \E variables \in Requests :
        Call("root_mean_squared_error", variables,
             root_mean_squared_error(self, CONTROLS, variables))

MeanRootSquaredError ==
    \E variables \in Requests :
        Call("mean_root_squared_error", variables,
             mean_root_squared_error(self, CONTROLS, variables))

MeanAbsolutePctError ==
    \E variables \in Requests :
        Call("mean_absolute_pct_error", variables,
             mean_absolute_pct_error(self, CONTROLS, variables))

-----------------------------------------------------------------------------
(* The loader and the batch runner *)

States == {"20", "29"}

Pumas == {"00500", "00602"}

Suffixes ==
    <<"persons_pums.csv", "households_pums.csv", "marginals.csv", "people.csv",
      "households.csv">>

\* data_dir + os.path.sep + FILE_PATTERN.format(state, puma, suffix)
File(state, puma, suffix) == <<state, puma, suffix>>

\* what the five files of a sub-area hold when they can be read
DataDir(state, puma) ==
    IF state = "20" /\ puma = "00500" THEN Default
    ELSE IF state = "20" THEN
        [Default EXCEPT
            !.person_pums = <<[age |-> "0-17", person_weight |-> MaxWeight]>>,
            !.generated_persons = <<[col0 |-> "p", age |-> "18+"]>>]
    ELSE IF puma = "00500" THEN
        [Default EXCEPT
            !.household_pums = <<>>,
            !.marginals = [c \in Columns |-> 0]]
    ELSE [Default EXCEPT
            !.marginals = [c \in Columns \ {Column("age", "18+")} |-> 1]]

\* a loader that swallows the IOError
from_csvs_swallowing(filepaths, accuracy) == [status |-> "ok", accuracy |-> accuracy]

\* from_csvs: five reads in a try block, IOError when one of them fails
from_csvs(filepaths, accuracy) ==
    IF \E i \in DOMAIN filepaths : filepaths[i] \in unreadable
    THEN [status |-> "IOError", accuracy |-> <<>>]
    ELSE [status |-> "ok", accuracy |-> accuracy]

from_data_dir(state, puma) ==
    from_csvs([i \in DOMAIN Suffixes |-> File(state, puma, Suffixes[i])],
              DataDir(state, puma))

\* the (state, puma) pairs in the order the two loops of run_pumas visit them
RECURSIVE Pairs(_)
Pairs(sp) ==
    IF sp = <<>> THEN <<>>
    ELSE [i \in DOMAIN Head(sp).pumas |-> <<Head(sp).state, Head(sp).pumas[i]>>]
         \o Pairs(Tail(sp))

\* a dict that puts a new key in front
SetItemFront(od, key, value) ==
    [keys |-> IF key \in Range(od.keys) THEN od.keys ELSE <<key>> \o od.keys,
     vals |-> (key :> value) @@ od.vals]

\* d[key] = value on an OrderedDict: a new key goes to the end, a known key
\* keeps its place
SetItem(od, key, value) ==
    [keys |-> IF key \in Range(od.keys) THEN od.keys ELSE Append(od.keys, key),
     vals |-> (key :> value) @@ od.vals]

\* pd.DataFrame(d_result.values(), index=d_result.keys(), columns=[...])
SummaryFrame(od) ==
    [returned |-> TRUE, index |-> od.keys,
     rows |-> [i \in DOMAIN od.keys |-> od.vals[od.keys[i]]]]

\* run_pumas is called with the default variables=['all']
DefaultVariables == <<"all">>

Statistics ==
    {"mean_absolute_pct_error", "mean_root_squared_error", "root_mean_squared_error",
     "bogus_stat"}

StatePumas ==
    {sp \in SeqsUpTo([state : States, pumas : SeqsUpTo(Pumas, MaxPumas)],
                     Cardinality(States)) :
        \A i, j \in DOMAIN sp : i # j => sp[i].state # sp[j].state}

\* run_pumas entered: d_result = OrderedDict(), no sub-area visited yet
InitBatch ==
    /\ CONTROLS = BaseControls
    /\ person_pums = <<>>
    /\ household_pums = <<>>
    /\ marginals = <<>>
    /\ generated_persons = <<>>
    /\ generated_households = <<>>
    /\ ret = NoCall
    /\ pc = "loop"
    /\ state_puma \in StatePumas
    /\ statistic \in Statistics
    /\ unreadable \in {{}} \cup
          {{File(st, pu, Suffixes[i])} : st \in States, pu \in Pumas, i \in {1, Len(Suffixes)}}
    /\ summary = NoSummary
    /\ pos = 0
    /\ d_result = EmptyDict
    /\ exc = ""
    /\ loads = <<>>
    /\ scored = <<>>

pair == Pairs(state_puma)[pos + 1]

InLoop == pc = "loop" /\ pos < Len(Pairs(state_puma))

\* line 192 raises: the IOError of from_csvs leaves run_pumas
LoadFails ==
    /\ InLoop
    /\ from_data_dir(pair[1], pair[2]).status # "ok"
    /\ pc' = "raised"
    /\ exc' = from_data_dir(pair[1], pair[2]).status
    /\ loads' = Append(loads, pair)
    /\ UNCHANGED <<CONTROLS, tables, ret, state_puma, statistic, unreadable, summary,
                   pos, d_result, scored>>

\* one pass of the loop body with the sub-area loaded and the statistic
\* `name` chosen by the if-chain: result is what the metric call gives
Score(name, result) ==
    /\ InLoop
    /\ from_data_dir(pair[1], pair[2]).status = "ok"
    /\ statistic = name
    /\ LET accuracy == from_data_dir(pair[1], pair[2]).accuracy
           r == result
       IN /\ person_pums' = accuracy.person_pums
          /\ household_pums' = accuracy.household_pums
          /\ marginals' = accuracy.marginals
          /\ generated_persons' = accuracy.generated_persons
          /\ generated_households' = accuracy.generated_households
          /\ IF r.status = "ok"
             THEN /\ d_result' = SetItem(d_result, pair, r.value)
                  /\ scored' = Append(scored, pair)
                  /\ pos' = pos + 1
                  /\ UNCHANGED <<pc, exc>>
             ELSE /\ pc' = "raised"
                  /\ exc' = r.status
                  /\ UNCHANGED <<d_result, scored, pos>>
    /\ loads' = Append(loads, pair)
    /\ CONTROLS' = controls_after(CONTROLS, DefaultVariables)
    /\ UNCHANGED <<ret, state_puma, statistic, unreadable, summary>>

ScoreMeanAbsolutePctError ==
    Score("mean_absolute_pct_error",
          mean_absolute_pct_error(from_data_dir(pair[1], pair[2]).accuracy, CONTROLS,
                                  DefaultVariables))

ScoreMeanRootSquaredError ==
    Score("mean_root_squared_error",
          mean_root_squared_error(from_data_dir(pair[1], pair[2]).accuracy, CONTROLS,
                                  DefaultVariables))

ScoreRootMeanSquaredError ==
    Score("root_mean_squared_error",
          root_mean_squared_error(from_data_dir(pair[1], pair[2]).accuracy, CONTROLS,
                                  DefaultVariables))

\* the else branch of the if-chain, lines 199-202
StatisticNotRecognized ==
    /\ InLoop
    /\ from_data_dir(pair[1], pair[2]).status = "ok"
    /\ statistic \notin {"mean_absolute_pct_error", "mean_root_squared_error",
                         "root_mean_squared_error"}
    /\ LET accuracy == from_data_dir(pair[1], pair[2]).accuracy
       IN /\ person_pums' = accuracy.person_pums
          /\ household_pums' = accuracy.household_pums
          /\ marginals' = accuracy.marginals
          /\ generated_persons' = accuracy.generated_persons
          /\ generated_households' = accuracy.generated_households
    /\ pc' = "raised"
    /\ exc' = "AccuracyException"
    /\ loads' = Append(loads, pair)
    /\ UNCHANGED <<CONTROLS, ret, state_puma, statistic, unreadable, summary, pos,
                   d_result, scored>>

\* lines 204-210, after the loops
Return ==
    /\ pc = "loop"
    /\ pos = Len(Pairs(state_puma))
    /\ pc' = "returned"
    /\ summary' = SummaryFrame(d_result)
    /\ UNCHANGED <<CONTROLS, tables, ret, state_puma, statistic, unreadable, pos,
                   d_result, exc, loads, scored>>

-----------------------------------------------------------------------------

Init == InitObject \/ InitBatch

Next ==
    \/ ComparisonDataframe
    \/ RootMeanSquaredError
    \/ MeanRootSquaredError
    \/ MeanAbsolutePctError
    \/ LoadFails
    \/ ScoreMeanAbsolutePctError
    \/ ScoreMeanRootSquaredError
    \/ ScoreRootMeanSquaredError
    \/ StatisticNotRecognized
    \/ Return

Spec == Init /\ [][Next]_vars

-----------------------------------------------------------------------------
(* Properties.  What the documents say, stated without the operators       *)
(* above wherever the statement is about a value.                          *)

Scored == {"age", "num_people", "num_vehicles"}

Recognized ==
    {"mean_absolute_pct_error", "mean_root_squared_error", "root_mean_squared_error"}

\* a call on the object has returned or raised
Called == pc = "object" /\ ret.op # ""

\* the variables the last call asked for
Requested ==
    IF ret.variables = <<"all">> THEN DOMAIN CONTROLS ELSE Range(ret.variables)

\* the (variable, bin) pairs the last call asked the builder to evaluate
RequestedRows ==
    {<<v, b>> \in (Requested \cap DOMAIN CONTROLS) \X
                  UNION {Range(CONTROLS[x]) : x \in DOMAIN CONTROLS} :
        b \in Range(CONTROLS[v]) /\ ~(v = "num_people" /\ b = "count")}

SurveyOf(v) == IF v = "age" THEN person_pums ELSE household_pums

WeightOf(v) == IF v = "age" THEN "person_weight" ELSE "household_weight"

GeneratedOf(v) == IF v = "age" THEN generated_persons ELSE generated_households

Matching(table, v, b) == {i \in DOMAIN table : table[i][v] = b}

RECURSIVE TotalWeight(_, _, _)
TotalWeight(table, weight, rows) ==
    IF rows = {} THEN 0
    ELSE LET i == CHOOSE x \in rows : TRUE
         IN table[i][weight] + TotalWeight(table, weight, rows \ {i})

IsNumber(a) == a.kind \in {"num", "sqrt"}

NonNegative(a) == IsNumber(a) /\ a.n >= 0

RECURSIVE FirstOccurrences(_)
FirstOccurrences(s) ==
    IF s = <<>> THEN <<>>
    ELSE LET front == FirstOccurrences(SubSeq(s, 1, Len(s) - 1))
         IN IF s[Len(s)] \in Range(front) THEN front ELSE Append(front, s[Len(s)])

Readable(p) == \A i \in DOMAIN Suffixes : File(p[1], p[2], Suffixes[i]) \notin unreadable

\* the statistic of one sub-area, from the files of that sub-area
StatisticOf(p) ==
    IF statistic = "mean_absolute_pct_error"
    THEN mean_absolute_pct_error(DataDir(p[1], p[2]), CONTROLS, DefaultVariables)
    ELSE IF statistic = "mean_root_squared_error"
    THEN mean_root_squared_error(DataDir(p[1], p[2]), CONTROLS, DefaultVariables)
    ELSE root_mean_squared_error(DataDir(p[1], p[2]), CONTROLS, DefaultVariables)

\* C1: with every file readable, a statistic name outside the three known
\* ones makes run_pumas end by raising AccuracyException, with no summary
\* returned and no statistic computed, whatever the geography mapping.
C1_UnrecognizedStatisticRaises ==
    (pc \in {"returned", "raised"} /\ statistic \notin Recognized /\ unreadable = {})
        => (pc = "raised" /\ exc = "AccuracyException" /\ summary = NoSummary
            /\ scored = <<>>)

\* C2 as claimed: a returned summary has one row per sub-area identifier of
\* the mapping, keyed and ordered as the pairs were iterated, each row the
\* statistic of its pair.
C2_OneRowPerIdentifier ==
    pc = "returned" =>
        /\ summary.index = Pairs(state_puma)
        /\ Len(summary.rows) = Len(Pairs(state_puma))
        /\ \A i \in DOMAIN summary.rows :
              summary.rows[i] = StatisticOf(summary.index[i]).value

\* C2 amended: a returned summary has one row per distinct (geography,
\* sub-area) pair of the mapping, in the order in which the pairs were first
\* iterated, each row keyed by its pair and holding the statistic of that pair.
C2_OneRowPerDistinctPair ==
    pc = "returned" =>
        /\ summary.index = FirstOccurrences(Pairs(state_puma))
        /\ Len(summary.rows) = Cardinality(Range(Pairs(state_puma)))
        /\ \A i \in DOMAIN summary.rows :
              /\ StatisticOf(summary.index[i]).status = "ok"
              /\ summary.rows[i] = StatisticOf(summary.index[i]).value

\* C2 witness: a returned summary of two different rows from a mapping that
\* lists a sub-area twice
C2_Witness ==
    /\ pc = "returned"
    /\ Len(summary.rows) >= 2
    /\ Len(Pairs(state_puma)) > Len(summary.rows)
    /\ summary.rows[1] # summary.rows[2]

\* C3: a sub-area whose files cannot be loaded is the last one run_pumas
\* touches: the pairs before it were loaded and scored in order, it was
\* handed to the loader once, nothing after it is loaded or scored, run_pumas
\* has raised IOError and no summary exists.
C3_LoadFailureAborts ==
    /\ \A i \in DOMAIN loads :
          ~Readable(loads[i]) =>
              /\ i = Len(loads)
              /\ pc = "raised" /\ exc = "IOError"
              /\ summary = NoSummary
              /\ scored = SubSeq(Pairs(state_puma), 1, i - 1)
    /\ loads = SubSeq(Pairs(state_puma), 1, Len(loads))
    /\ exc = "IOError" => (loads # <<>> /\ ~Readable(loads[Len(loads)]))

\* C3 witness: the load fails after a sub-area was scored and before the last
C3_Witness ==
    /\ pc = "raised" /\ exc = "IOError"
    /\ Len(scored) >= 1
    /\ Len(loads) < Len(Pairs(state_puma))

\* C4: in a table that was built, every requested (variable, bin) of age,
\* num_people, num_vehicles has a row, and the row's survey count is the sum
\* of the weights of the survey records whose field equals the bin.
C4_SurveyCountIsWeightSum ==
    (Called /\ ret.status = "ok") =>
        \A k \in RequestedRows :
            k[1] \in Scored =>
                /\ k \in DOMAIN ret.df
                /\ ret.df[k].pums =
                      Val(TotalWeight(SurveyOf(k[1]), WeightOf(k[1]),
                                      Matching(SurveyOf(k[1]), k[1], k[2])))

\* C4 witness: two records of one bin with weights 1 and 2 beside an empty bin
C4_Witness ==
    /\ Called /\ ret.status = "ok" /\ ret.op = "_comparison_dataframe"
    /\ <<"age", "0-17">> \in DOMAIN ret.df
    /\ Cardinality(Matching(person_pums, "age", "0-17")) = 2
    /\ ret.df[<<"age", "0-17">>].pums = Val(3)
    /\ ret.df[<<"age", "18+">>].pums = Val(0)

\* C5: in a table that was built, the generated count of every requested
\* (variable, bin) of age, num_people, num_vehicles is the number of
\* generated records whose field equals the bin.
C5_GeneratedCountIsRowCount ==
    (Called /\ ret.status = "ok") =>
        \A k \in RequestedRows :
            k[1] \in Scored =>
                /\ k \in DOMAIN ret.df
                /\ ret.df[k].gen = Val(Cardinality(Matching(GeneratedOf(k[1]), k[1], k[2])))

\* C6: a table built with num_people among the requested variables has no
\* row (num_people, count) and has a row for every other bin of num_people.
C6_NoCountRow ==
    (Called /\ ret.status = "ok" /\ "num_people" \in Requested) =>
        /\ <<"num_people", "count">> \notin DOMAIN ret.df
        /\ \A b \in Range(CONTROLS["num_people"]) \ {"count"} :
              <<"num_people", b>> \in DOMAIN ret.df

\* C6 witness: a table built for all variables while marginals has a column
\* for (num_people, count)
C6_Witness ==
    /\ Called /\ ret.status = "ok" /\ ret.variables = <<"all">>
    /\ "count" \in Range(CONTROLS["num_people"])
    /\ Column("num_people", "count") \in DOMAIN marginals
    /\ <<"num_people", "2+">> \in DOMAIN ret.df

\* C7: when marginals lacks the column of a requested (variable, bin), the
\* builder and every metric raise KeyError and hand back nothing, and a batch
\* run that reaches such a sub-area raises KeyError there with no summary.
C7_MissingColumnFails ==
    /\ (Called /\ \E k \in RequestedRows : Column(k[1], k[2]) \notin DOMAIN marginals)
          => (ret.status = "KeyError" /\ ret.df = <<>> /\ ret.value = <<>>)
    /\ \A i \in DOMAIN loads :
          (/\ Readable(loads[i])
           /\ statistic \in Recognized
           /\ \E v \in DOMAIN CONTROLS : \E j \in DOMAIN CONTROLS[v] :
                 /\ ~(v = "num_people" /\ CONTROLS[v][j] = "count")
                 /\ Column(v, CONTROLS[v][j]) \notin
                       DOMAIN DataDir(loads[i][1], loads[i][2]).marginals)
          => (/\ i = Len(loads)
              /\ pc = "raised" /\ exc = "KeyError"
              /\ summary = NoSummary
              /\ loads[i] \notin Range(d_result.keys))

\* C7 witness: a metric asked for age, whose first bin has its column and
\* whose second has none
C7_Witness ==
    /\ Called /\ ret.op = "root_mean_squared_error" /\ ret.variables = <<"age">>
    /\ Column("age", "0-17") \in DOMAIN marginals
    /\ Column("age", "18+") \notin DOMAIN marginals
    /\ ret.status = "KeyError"

C9_RmseZeroAndNonNegative ==
    (Called /\ ret.op = "root_mean_squared_error" /\ ret.status = "ok") =>
        /\ (\A k \in DOMAIN ret.df : ret.df[k].pums = ret.df[k].marginal)
              => ret.value[1] = Val(0)
        /\ NonNegative(ret.value[2])

\* C9 amended: the same for every table that has at least one row.
C9_RmseZeroAndNonNegativeOnRows ==
    (Called /\ ret.op = "root_mean_squared_error" /\ ret.status = "ok"
            /\ DOMAIN ret.df # {}) =>
        /\ (\A k \in DOMAIN ret.df : ret.df[k].pums = ret.df[k].marginal)
              => ret.value[1] = Val(0)
        /\ NonNegative(ret.value[2])

\* C9 witness: a table with rows, survey equal to marginal in each, and a
\* synthetic error above 0
C9_Witness ==
    /\ Called /\ ret.op = "root_mean_squared_error" /\ ret.status = "ok"
    /\ DOMAIN ret.df # {}
    /\ \A k \in DOMAIN ret.df : ret.df[k].pums = ret.df[k].marginal
    /\ ret.value[1] = Val(0)
    /\ ret.value[2] # Val(0)

\* C10: asked for a variable of CONTROLS other than age, num_people and
\* num_vehicles (every needed column present), the builder returns a table
\* in which each row of that variable has the marginals column as its
\* marginal count and no survey and generated count.
C10_OtherVariableRows ==
    (/\ Called /\ ret.op = "_comparison_dataframe"
     /\ Requested \subseteq DOMAIN CONTROLS
     /\ Requested \ Scored # {}
     /\ \A k \in RequestedRows : Column(k[1], k[2]) \in DOMAIN marginals)
        => /\ ret.status = "ok"
           /\ \A k \in RequestedRows :
                 k[1] \notin Scored =>
                     /\ k \in DOMAIN ret.df
                     /\ ret.df[k].marginal = Val(marginals[Column(k[1], k[2])])
                     /\ IsNaN(ret.df[k].pums)
                     /\ IsNaN(ret.df[k].gen)

=============================================================================
